---- MODULE Spec2Model ----
(***************************************************************************)
(* Model of the user CRUD service of main.py: one `users` table reached    *)
(* through request-scoped ORM sessions (autocommit=False, autoflush=False). *)
(* A write handler is split at its db.commit(): everything up to the       *)
(* commit (queries, checks, in-memory assignments) is one step, the commit  *)
(* with refresh and response is the next, so that two requests can          *)
(* interleave between their pre-check query and their commit.              *)
(***************************************************************************)
EXTENDS Integers, Sequences, FiniteSets, TLC

(* ---------------- bounds ---------------- *)
MaxId == 2
MaxClock == 3

(* ---------------- input domains ---------------- *)
Ids == 1..MaxId
ReqIds == 1..(MaxId + 1)
Sessions == {"s1", "s2"}
Names == {"Ann", "Anne"}
Emails == {<<"a", "@", "x">>, <<"b", "@", "x">>, <<"b", "o", "b">>}
Ages == {30, 31}
Sexes == {"Female", "Male", "Other"}

(* Optional[T]: None is the empty set, a present value v is {v}. *)
None == {}
Some(v) == {v}
Val(o) == CHOOSE v \in o : TRUE
Opt(S) == {None} \cup {Some(v) : v \in S}

NoRow == [name |-> "", email |-> <<>>, age |-> 0, sex |-> "",
          created_at |-> None, updated_at |-> None]
NoReq == [name |-> None, email |-> None, age |-> None, sex |-> None]

UserCreate == {[name |-> Some(n), email |-> Some(e), age |-> Some(a), sex |-> Some(x)] :
                  n \in Names, e \in Emails, a \in Ages, x \in Sexes}
UserUpdate == [name : Opt(Names), email : Opt(Emails), age : Opt(Ages), sex : Opt(Sexes)]

VARIABLES users, now, sess
vars == <<users, now, sess>>

(* a request-scoped session: SessionLocal() ... db.close() *)
Idle == [pc |-> "idle", op |-> "none", id |-> 0, req |-> NoReq,
         obj |-> NoRow, loaded |-> NoRow, status |-> 0, detail |-> ""]

(* the handler has db.add()/db.delete()ed and is about to db.commit() *)
Pending(op, id, req, obj, loaded) ==
    [pc |-> "commit", op |-> op, id |-> id, req |-> req,
     obj |-> obj, loaded |-> loaded, status |-> 0, detail |-> ""]

(* the handler has returned or raised; the session is not yet closed *)
Done(op, id, req, status, detail) ==
    [pc |-> "done", op |-> op, id |-> id, req |-> req,
     obj |-> NoRow, loaded |-> NoRow, status |-> status, detail |-> detail]

(* ---------------- the table ---------------- *)
Stored == {i \in Ids : users[i] # NoRow}

Max(S) == CHOOSE m \in S : \A k \in S : k <= m
Min(S) == CHOOSE m \in S : \A k \in S : m <= k

(* db.query(User).filter(User.id == user_id).first(); 0 stands for None *)
FirstById(id) == IF id \in Stored THEN id ELSE 0

(* db.query(User).filter(User.email == email).first(); 0 stands for None *)
FirstByEmail(email) ==
    LET hits == {i \in Stored : users[i].email = email}
    IN IF hits = {} THEN 0 ELSE Min(hits)

(* INTEGER PRIMARY KEY without AUTOINCREMENT: largest rowid plus one *)
NextId == IF Stored = {} THEN 1 ELSE Max(Stored) + 1

(* '@' in email *)
HasAt(email) == \E i \in 1..Len(email) : email[i] = "@"

(* Column(String, unique=True): would writing `email` on row `id` collide *)
UniqueViolationOff(id, email) == FALSE
UniqueViolation(id, email) ==
    \E j \in Stored : j # id /\ users[j].email = email

Init ==
    /\ users = [i \in Ids |-> NoRow]
    /\ now = 0
    /\ sess = [s \in Sessions |-> Idle]

(* get_db: finally db.close() *)
Close(s) ==
    /\ sess[s].pc = "done"
    /\ sess' = [sess EXCEPT ![s] = Idle]
    /\ UNCHANGED <<users, now>>

(* ---------------- python values ---------------- *)
(* An int instance and the class object `int` are different objects. *)
PyInt(v) == [kind |-> "int", ival |-> v, name |-> ""]
IntClass == [kind |-> "type", ival |-> 0, name |-> "int"]
(* truth value of a str: non-empty *)
Truthy(str) == str # ""

(* update_user: `user_update.age is not int` (identity against the class) *)
AgeRejectedIsInstance(age) == PyInt(age).kind # "int"
AgeRejected(age) == PyInt(age) # IntClass

(* update_user: `user_update.sex != 'Female' or 'Male'` *)
SexRejectedBoth(sex) == sex # "Female" /\ sex # "Male"
SexRejected(sex) == (sex # "Female") \/ Truthy("Male")

(* update_user: `existing_user and existing_user.id != user_id` *)
EmailTakenAnyId(id, email) == FirstByEmail(email) # 0
EmailTaken(id, email) ==
    LET existing_user == FirstByEmail(email)
    IN existing_user # 0 /\ existing_user # id

(* ---------------- create_user ---------------- *)
(* the checks of create_user in order; status 0 means no check raised *)
CreateCheckSexFirst(r) ==
    IF Val(r.sex) # "Female" /\ Val(r.sex) # "Male"
      THEN [status |-> 422, detail |-> "Please choose Female or Male for sex"]
    ELSE IF FirstByEmail(Val(r.email)) # 0
      THEN [status |-> 400, detail |-> "Email already in use"]
    ELSE IF ~HasAt(Val(r.email))
      THEN [status |-> 422, detail |-> "Please enter a valid email address"]
    ELSE [status |-> 0, detail |-> ""]
CreateCheck(r) ==
    IF FirstByEmail(Val(r.email)) # 0
      THEN [status |-> 400, detail |-> "Email already in use"]
    ELSE IF Val(r.sex) # "Female" /\ Val(r.sex) # "Male"
      THEN [status |-> 422, detail |-> "Please choose Female or Male for sex"]
    ELSE IF ~HasAt(Val(r.email))
      THEN [status |-> 422, detail |-> "Please enter a valid email address"]
    ELSE [status |-> 0, detail |-> ""]

(* lines 82-93: pre-check query, validation, User(...), db.add *)
CreateBegin(s, requests) ==
    /\ sess[s].pc = "idle"
    /\ \E r \in requests :
         LET c == CreateCheck(r)
         IN sess' = [sess EXCEPT ![s] =
               IF c.status # 0
                 THEN Done("create", 0, r, c.status, c.detail)
                 ELSE Pending("create", 0, r,
                              [name |-> Val(r.name), email |-> Val(r.email),
                               age |-> Val(r.age), sex |-> Val(r.sex),
                               created_at |-> None, updated_at |-> None],
                              NoRow)]
    /\ UNCHANGED <<users, now>>

(* lines 94-96: db.commit() (INSERT), db.refresh, response *)
CreateCommit(s) ==
    /\ sess[s].pc = "commit" /\ sess[s].op = "create"
    /\ IF UniqueViolation(0, sess[s].obj.email)
         THEN /\ sess' = [sess EXCEPT ![s] =
                     Done("create", 0, sess[s].req, 500, "IntegrityError")]
              /\ UNCHANGED <<users, now>>
         ELSE /\ NextId <= MaxId
              /\ now < MaxClock
              /\ now' = now + 1
              /\ users' = [users EXCEPT ![NextId] =
                     [sess[s].obj EXCEPT !.created_at = Some(now')]]
              /\ sess' = [sess EXCEPT ![s] =
                     Done("create", NextId, sess[s].req, 200, "user")]

(* ---------------- read_user, read_user_by_email ---------------- *)
ReadStatus(id) == IF FirstById(id) = 0 THEN 404 ELSE 200

ReadUser(s) ==
    /\ sess[s].pc = "idle"
    /\ \E id \in ReqIds :
         sess' = [sess EXCEPT ![s] =
             Done("read", id, NoReq, ReadStatus(id),
                  IF ReadStatus(id) = 404 THEN "User not found" ELSE "user")]
    /\ UNCHANGED <<users, now>>

ReadUserByEmail(s) ==
    /\ sess[s].pc = "idle"
    /\ \E email \in Emails :
       LET db_user == FirstByEmail(email)
       IN sess' = [sess EXCEPT ![s] =
              Done("read_by_email", db_user, [NoReq EXCEPT !.email = Some(email)],
                   IF db_user = 0 THEN 404 ELSE 200,
                   IF db_user = 0 THEN "User not found" ELSE "user")]
    /\ UNCHANGED <<users, now>>

(* ---------------- update_user ---------------- *)
(* lines 123-144: the in-memory assignments and checks, in order.  Yields  *)
(* the status raised (0 when none) and the session's object afterwards.    *)
Raise(status, detail, obj) == [status |-> status, detail |-> detail, obj |-> obj]

UpdateSex(r, o) ==
    IF r.sex = None THEN Raise(0, "", o)
    ELSE IF SexRejected(Val(r.sex))
      THEN Raise(422, "Please enter Female or Male", o)
    ELSE Raise(0, "", [o EXCEPT !.sex = Val(r.sex)])

UpdateAge(r, o) ==
    IF r.age = None THEN UpdateSex(r, o)
    ELSE IF AgeRejected(Val(r.age))
      THEN Raise(422, "Please enter a valid age", o)
    ELSE UpdateSex(r, [o EXCEPT !.age = Val(r.age)])

UpdateEmail(id, r, o) ==
    IF r.email = None THEN UpdateAge(r, o)
    ELSE IF EmailTaken(id, Val(r.email))
      THEN Raise(400, "Email already registered", o)
    ELSE UpdateAge(r, [o EXCEPT !.email = Val(r.email)])

UpdateName(id, r, o) ==
    IF r.name = None THEN UpdateEmail(id, r, o)
    ELSE UpdateEmail(id, r, [o EXCEPT !.name = Val(r.name)])

(* what the table holds after a handler left through an exception: get_db  *)
(* closes the session without a commit, the assignments on obj are lost    *)
OnErrorFlush(id, obj) == [users EXCEPT ![id] = obj]
OnError(id, obj) == users

(* lines 119-147: lookup, assignments and checks, updated_at, db.add *)
UpdateBegin(s, requests) ==
    /\ sess[s].pc = "idle"
    /\ \E id \in ReqIds, r \in requests :
       IF FirstById(id) = 0
         THEN /\ sess' = [sess EXCEPT ![s] =
                     Done("update", id, r, 404, "User not found")]
              /\ UNCHANGED users
         ELSE LET u == UpdateName(id, r, users[id])
              IN IF u.status # 0
                   THEN /\ sess' = [sess EXCEPT ![s] =
                               Done("update", id, r, u.status, u.detail)]
                        /\ users' = OnError(id, u.obj)
                   ELSE /\ sess' = [sess EXCEPT ![s] =
                               Pending("update", id, r, u.obj, users[id])]
                        /\ UNCHANGED users
    /\ UNCHANGED now

(* the UPDATE the unit of work emits: only attributes whose value differs  *)
(* from the loaded one, plus updated_at = now()                            *)
WrittenNoStamp(row, obj, loaded, t) ==
    [name |-> IF obj.name # loaded.name THEN obj.name ELSE row.name,
     email |-> IF obj.email # loaded.email THEN obj.email ELSE row.email,
     age |-> IF obj.age # loaded.age THEN obj.age ELSE row.age,
     sex |-> IF obj.sex # loaded.sex THEN obj.sex ELSE row.sex,
     created_at |-> row.created_at,
     updated_at |-> row.updated_at]
Written(row, obj, loaded, t) ==
    [name |-> IF obj.name # loaded.name THEN obj.name ELSE row.name,
     email |-> IF obj.email # loaded.email THEN obj.email ELSE row.email,
     age |-> IF obj.age # loaded.age THEN obj.age ELSE row.age,
     sex |-> IF obj.sex # loaded.sex THEN obj.sex ELSE row.sex,
     created_at |-> row.created_at,
     updated_at |-> Some(t)]

(* lines 148-150: db.commit() (UPDATE ... WHERE id), db.refresh, response *)
UpdateCommit(s) ==
    /\ sess[s].pc = "commit" /\ sess[s].op = "update"
    /\ LET id == sess[s].id
           obj == sess[s].obj
           loaded == sess[s].loaded
       IN IF users[id] = NoRow
            THEN /\ sess' = [sess EXCEPT ![s] =
                        Done("update", id, sess[s].req, 500, "StaleDataError")]
                 /\ UNCHANGED <<users, now>>
          ELSE IF obj.email # loaded.email /\ UniqueViolation(id, obj.email)
            THEN /\ sess' = [sess EXCEPT ![s] =
                        Done("update", id, sess[s].req, 500, "IntegrityError")]
                 /\ UNCHANGED <<users, now>>
          ELSE /\ now < MaxClock
               /\ now' = now + 1
               /\ users' = [users EXCEPT ![id] = Written(users[id], obj, loaded, now')]
               /\ sess' = [sess EXCEPT ![s] =
                      Done("update", id, sess[s].req, 200, "user")]

(* ---------------- delete_user ---------------- *)
(* line 156 on a lookup that found nothing: db.delete(None) raises         *)
(* UnmappedInstanceError, which is not an HTTPException                    *)
DeleteMissingGuarded == [status |-> 404, detail |-> "User not found"]
DeleteMissing == [status |-> 500, detail |-> "UnmappedInstanceError"]

(* lines 155-156: lookup, db.delete(db_user) *)
DeleteBegin(s) ==
    /\ sess[s].pc = "idle"
    /\ \E id \in ReqIds :
         sess' = [sess EXCEPT ![s] =
             IF FirstById(id) = 0
               THEN Done("delete", id, NoReq, DeleteMissing.status, DeleteMissing.detail)
               ELSE Pending("delete", id, NoReq, users[id], users[id])]
    /\ UNCHANGED <<users, now>>

(* DELETE FROM users WHERE id = ? *)
DeletedAll(id) == [i \in Ids |-> NoRow]
Deleted(id) == [users EXCEPT ![id] = NoRow]

(* lines 157-158: db.commit() (DELETE), confirmation message *)
DeleteCommit(s) ==
    /\ sess[s].pc = "commit" /\ sess[s].op = "delete"
    /\ now < MaxClock
    /\ now' = now + 1
    /\ users' = Deleted(sess[s].id)
    /\ sess' = [sess EXCEPT ![s] =
           Done("delete", sess[s].id, NoReq, 200, "User has been deleted")]

(* ---------------- the service, one request at a time ---------------- *)
Next ==
    \/ CreateBegin("s1", UserCreate)
    \/ CreateCommit("s1")
    \/ ReadUser("s1")
    \/ ReadUserByEmail("s1")
    \/ UpdateBegin("s1", UserUpdate)
    \/ UpdateCommit("s1")
    \/ DeleteBegin("s1")
    \/ DeleteCommit("s1")
    \/ Close("s1")

Spec == Init /\ [][Next]_vars

(* ---------------- the service, two requests in flight ---------------- *)
(* requests that differ in the email only *)
EmailCreate == {r \in UserCreate :
                  r.name = Some("Ann") /\ r.age = Some(30) /\ r.sex = Some("Female")}
EmailUpdate == {r \in UserUpdate : r.name = None /\ r.age = None /\ r.sex = None}

NextConc ==
    \/ \E s \in Sessions : CreateBegin(s, EmailCreate)
    \/ \E s \in Sessions : CreateCommit(s)
    \/ \E s \in Sessions : ReadUser(s)
    \/ \E s \in Sessions : ReadUserByEmail(s)
    \/ \E s \in Sessions : UpdateBegin(s, EmailUpdate)
    \/ \E s \in Sessions : UpdateCommit(s)
    \/ \E s \in Sessions : DeleteBegin(s)
    \/ \E s \in Sessions : DeleteCommit(s)
    \/ \E s \in Sessions : Close(s)

SpecConc == Init /\ [][NextConc]_vars

(* ---------------- steps of a request ---------------- *)
(* the handler `op` starts in session s in this step (its lookups and checks run) *)
Starts(s, op) == sess[s].pc = "idle" /\ sess'[s].pc # "idle" /\ sess'[s].op = op
(* the handler `op` of session s returns or raises in this step *)
Answers(s, op) == sess[s].pc # "done" /\ sess'[s].pc = "done" /\ sess'[s].op = op
(* the commit of handler `op` of session s runs in this step *)
Commits(s, op) == sess[s].pc = "commit" /\ sess[s].op = op /\ sess'[s].pc = "done"

Typed == {400, 404, 422}
OthersUnchanged(id) == \A j \in Ids : j # id => users'[j] = users[j]

(* C1: in every reachable state, also when two create/update requests      *)
(* interleave between their email pre-check and their commit, no two       *)
(* stored users have the same email.                                       *)
C1_UniqueEmails ==
    \A i \in Stored : \A j \in Stored : i # j => users[i].email # users[j].email

(* the race happened: a request passed its pre-check and its commit was refused *)
C1_Witness ==
    /\ Cardinality(Stored) = 2
    /\ \E s \in Sessions : sess[s].pc = "done" /\ sess[s].detail = "IntegrityError"

(* C2: a create request whose email is the email of a stored user fails    *)
(* with 400 whatever its name, age and sex and whether or not its email    *)
(* holds '@', and the table is unchanged.                                  *)
C2_CreateDuplicateConflict ==
    [][\A s \in Sessions :
         (Starts(s, "create") /\ FirstByEmail(Val(sess'[s].req.email)) # 0)
           => /\ sess'[s].pc = "done"
              /\ sess'[s].status = 400
              /\ users' = users]_vars

C2_Witness ==
    /\ sess["s1"].pc = "done" /\ sess["s1"].op = "create"
    /\ sess["s1"].status = 400
    /\ sess["s1"].req.sex = Some("Other")
    /\ ~HasAt(Val(sess["s1"].req.email))

(* C3: an update of a stored id whose email is stored on another id fails  *)
(* with 400; an update that supplies the user's own email does not.        *)
C3_UpdateEmailConflict ==
    [][\A s \in Sessions :
         (Starts(s, "update") /\ sess'[s].id \in Stored /\ sess'[s].req.email # None)
           => LET id == sess'[s].id
                  e == Val(sess'[s].req.email)
              IN /\ (\E j \in Stored : j # id /\ users[j].email = e)
                       => (sess'[s].pc = "done" /\ sess'[s].status = 400)
                 /\ users[id].email = e => sess'[s].status # 400]_vars

C3_Witness ==
    /\ sess["s1"].pc = "done" /\ sess["s1"].op = "update"
    /\ sess["s1"].status = 400
    /\ sess["s1"].id \in Stored
    /\ \E j \in Stored : j # sess["s1"].id /\ Some(users[j].email) = sess["s1"].req.email

(* C4: in every reachable state every stored email contains '@'.           *)
C4_AllEmailsHaveAt == \A i \in Stored : HasAt(users[i].email)

(* C5: an update of a stored user that supplies only the name succeeds,    *)
(* sets the stored name, leaves the row's id, email, age and sex and every *)
(* other row unchanged, and sets updated_at.                               *)
NameOnly(r) == r.name # None /\ r.email = None /\ r.age = None /\ r.sex = None

C5_UpdateNameOnly ==
    [][\A s \in Sessions :
         /\ (Starts(s, "update") /\ sess'[s].id \in Stored /\ NameOnly(sess'[s].req))
              => (sess'[s].pc = "commit" /\ users' = users)
         /\ (sess[s].pc = "commit" /\ sess[s].op = "update" /\ NameOnly(sess[s].req)
               /\ sess'[s] # sess[s])
              => LET id == sess[s].id
                 IN /\ sess'[s].pc = "done" /\ sess'[s].status = 200
                    /\ sess'[s].id = id
                    /\ users'[id] # NoRow
                    /\ users'[id].name = Val(sess[s].req.name)
                    /\ users'[id].email = users[id].email
                    /\ users'[id].age = users[id].age
                    /\ users'[id].sex = users[id].sex
                    /\ users'[id].updated_at = Some(now')
                    /\ now' > now
                    /\ OthersUnchanged(id)]_vars

C5_Witness ==
    /\ sess["s1"].pc = "done" /\ sess["s1"].op = "update"
    /\ sess["s1"].status = 200
    /\ NameOnly(sess["s1"].req)
    /\ users[sess["s1"].id].name = "Anne"
    /\ users[sess["s1"].id].updated_at = Some(now)
    /\ Cardinality(Stored) = 2

(* C6: a delete of a stored id removes exactly that row, leaves the other  *)
(* rows unchanged and returns the confirmation message; a read by id       *)
(* answers 404 exactly when the row is absent, and only a create makes an  *)
(* absent row present, so the next read of the id answers 404.             *)
C6_DeleteThenNotFound ==
    [][\A s \in Sessions :
         /\ (Commits(s, "delete") /\ sess[s].id \in Stored)
              => /\ users'[sess[s].id] = NoRow
                 /\ OthersUnchanged(sess[s].id)
                 /\ sess'[s].status = 200
                 /\ sess'[s].detail = "User has been deleted"
                 /\ ReadStatus(sess[s].id)' = 404
         /\ Answers(s, "read")
              => (sess'[s].status = 404 <=> sess'[s].id \notin Stored)
         /\ \A id \in Ids :
              (users[id] = NoRow /\ users'[id] # NoRow)
                => \E c \in Sessions : Commits(c, "create")]_vars

C6_Witness ==
    /\ sess["s1"].pc = "done" /\ sess["s1"].op = "delete"
    /\ sess["s1"].status = 200
    /\ sess["s1"].id \notin Stored
    /\ Stored # {}

(* C7 as stated: an update of a stored user that supplies a sex is never   *)
(* rejected with 422, and the stored sex becomes the supplied value.       *)
C7_SexNeverRejected ==
    [][\A s \in Sessions :
         /\ (Starts(s, "update") /\ sess'[s].id \in Stored /\ sess'[s].req.sex # None)
              => sess'[s].status # 422
         /\ (Commits(s, "update") /\ sess[s].req.sex # None /\ sess'[s].status = 200)
              => users'[sess[s].id].sex = Val(sess[s].req.sex)]_vars

(* C7 amended: an update of a stored user that supplies a sex is always    *)
(* rejected, with 422 unless the email check raised 400 first; the reject  *)
(* branch of the sex check is taken for every value, and no stored row's   *)
(* sex ever changes.                                                       *)
C7_SexAlwaysRejected ==
    [][/\ \A s \in Sessions :
            (Starts(s, "update") /\ sess'[s].id \in Stored /\ sess'[s].req.sex # None)
              => LET r == sess'[s].req
                     conflict == r.email # None /\
                                 \E j \in Stored : j # sess'[s].id /\
                                                   users[j].email = Val(r.email)
                 IN /\ sess'[s].pc = "done"
                    /\ sess'[s].status = IF conflict THEN 400 ELSE 422
                    /\ (~conflict /\ r.age = None)
                         => sess'[s].detail = "Please enter Female or Male"
                    /\ users' = users
       /\ \A id \in Ids :
            (users[id] # NoRow /\ users'[id] # NoRow) => users'[id].sex = users[id].sex]_vars

C7_Witness ==
    /\ sess["s1"].pc = "done" /\ sess["s1"].op = "update"
    /\ sess["s1"].status = 422
    /\ sess["s1"].detail = "Please enter Female or Male"
    /\ sess["s1"].req.sex = Some("Male")
    /\ sess["s1"].id \in Stored
    /\ users[sess["s1"].id].sex = "Female"

(* C8 as stated: an update of a stored user that supplies an age is never  *)
(* rejected with 422, and the stored age becomes the supplied value.       *)
C8_AgeNeverRejected ==
    [][\A s \in Sessions :
         /\ (Starts(s, "update") /\ sess'[s].id \in Stored /\ sess'[s].req.age # None)
              => sess'[s].status # 422
         /\ (Commits(s, "update") /\ sess[s].req.age # None /\ sess'[s].status = 200)
              => users'[sess[s].id].age = Val(sess[s].req.age)]_vars

(* C8 amended: an update of a stored user that supplies an age is always   *)
(* rejected, with 422 from the age check unless the email check raised 400 *)
(* first; the age check takes the reject branch for every value, and no    *)
(* stored row's age ever changes.                                          *)
C8_AgeAlwaysRejected ==
    [][/\ \A s \in Sessions :
            (Starts(s, "update") /\ sess'[s].id \in Stored /\ sess'[s].req.age # None)
              => LET r == sess'[s].req
                     conflict == r.email # None /\
                                 \E j \in Stored : j # sess'[s].id /\
                                                   users[j].email = Val(r.email)
                 IN /\ sess'[s].pc = "done"
                    /\ sess'[s].status = IF conflict THEN 400 ELSE 422
                    /\ ~conflict => sess'[s].detail = "Please enter a valid age"
                    /\ users' = users
       /\ \A id \in Ids :
            (users[id] # NoRow /\ users'[id] # NoRow) => users'[id].age = users[id].age]_vars

C8_Witness ==
    /\ sess["s1"].pc = "done" /\ sess["s1"].op = "update"
    /\ sess["s1"].status = 422
    /\ sess["s1"].detail = "Please enter a valid age"
    /\ sess["s1"].req.age = Some(31)
    /\ sess["s1"].id \in Stored
    /\ users[sess["s1"].id].age = 30

(* C9: a delete of an id that matches no stored user does not answer 404:  *)
(* it fails with an error that is not one of the typed ones, changes no    *)
(* row and does not return the confirmation message.                       *)
C9_DeleteMissingUntyped ==
    [][\A s \in Sessions :
         (Starts(s, "delete") /\ sess'[s].id \notin Stored)
           => /\ sess'[s].pc = "done"
              /\ sess'[s].status \notin Typed
              /\ sess'[s].status # 200
              /\ sess'[s].detail # "User has been deleted"
              /\ users' = users]_vars

C9_Witness ==
    /\ sess["s1"].pc = "done" /\ sess["s1"].op = "delete"
    /\ sess["s1"].status = 500
    /\ sess["s1"].id \in Ids
    /\ Stored # {}

(* C10: an update that ends in 404, 400 or 422 leaves every stored row     *)
(* unchanged, also when name (or email) had already been assigned on the   *)
(* session's object: nothing is committed before the session is closed.    *)
C10_UpdateErrorNoWrite ==
    [][\A s \in Sessions :
         /\ (Answers(s, "update") /\ sess'[s].status \in Typed)
              => (users' = users /\ now' = now)
         /\ (sess[s].pc = "done" /\ sess[s].op = "update" /\ sess[s].status \in Typed
               /\ sess'[s] # sess[s])
              => (sess'[s] = Idle /\ users' = users /\ now' = now)]_vars

(* name was assigned before the email check raised, and is not stored *)
C10_Witness ==
    /\ sess["s1"].pc = "done" /\ sess["s1"].op = "update"
    /\ sess["s1"].status = 400
    /\ sess["s1"].req.name # None
    /\ sess["s1"].id \in Stored
    /\ users[sess["s1"].id].name # Val(sess["s1"].req.name)

====
